---- MODULE Spec2Model ----
(***************************************************************************)
(* netplan apply (src/netplan/cli/commands/apply.py).                      *)
(*                                                                         *)
(* NetplanApply.command_apply is modelled as a state machine, one action   *)
(* per phase or loop iteration; NetplanApply.process_link_changes and      *)
(* NetplanApply.is_composite_member are pure and modelled as operators.    *)
(* The external primitives (generator, systemctl, nmcli, udevadm, ip) are  *)
(* recorded in the call log `calls`; their results are nondeterministic.   *)
(***************************************************************************)
EXTENDS Integers, Sequences, FiniteSets, TLC

\* Python None and the empty string: both falsy in `if not x` / `if x`.
None == ""
\* open(.../operstate) raised IOError (line 204).
Unreadable == "IOError"
\* /sys/class/net/<if>/device/driver does not exist.
NoLink == "nolink"

VARIABLES
    \* declared configuration (config_manager)
    phys,          \* physical_interfaces: ordered dict, a sequence of rules
    bridges,       \* bridges: set of [id, interfaces]
    bonds,         \* bonds: set of [id, interfaces]
    \* host state
    live,          \* kernel interfaces: sequence of [name, operstate, driver, addr]
    files_networkd,\* glob('/run/systemd/network/*netplan-*') is non-empty
    files_nm,      \* glob('/run/NetworkManager/system-connections/netplan-*') is non-empty
    \* command_apply parameters
    run_generate, exit_on_error,
    \* command_apply locals
    old_files_networkd, old_files_nm, restart_networkd, restart_nm,
    devices,       \* netifaces.interfaces() at line 59
    changes,       \* ordered dict interface -> {'name': ...}: sequence of [iface, name]
    matches,       \* process_link_changes' tables {'by-driver': {}, 'by-mac': {}}
    idx,           \* position of the running for loop
    pc,            \* position in command_apply
    outcome,       \* how the pass ended
    calls,         \* external primitives invoked so far, in order
    \* repeated planner runs
    pass,          \* number of the current planner run
    hist           \* interface names (by kernel index) at the start of each planner run

vars == <<phys, bridges, bonds, live, files_networkd, files_nm, run_generate,
          exit_on_error, old_files_networkd, old_files_nm, restart_networkd,
          restart_nm, devices, changes, matches, idx, pc, outcome, calls, pass,
          hist>>

config == <<phys, bridges, bonds>>
params == <<run_generate, exit_on_error>>
locals == <<old_files_networkd, old_files_nm, restart_networkd, restart_nm>>

----------------------------------------------------------------------------
(* Dictionaries *)

\* {} : a dict is modelled as a function on its keys.
EmptyDict == [x \in {} |-> None]

\* d[k] = v
Put(d, k, v) == [x \in (DOMAIN d) \cup {k} |-> IF x = k THEN v ELSE d[x]]

\* keys of an ordered dict modelled as a sequence of records with field f
Keys(seq) == {seq[k].id : k \in DOMAIN seq}

HasChange(ch, iface) == \E k \in DOMAIN ch : ch[k].iface = iface

\* changes.update({interface: {'name': new_name}}): an existing key keeps its
\* position and gets the new value, a new key is appended.
Update(ch, iface, new_name) ==
    IF HasChange(ch, iface)
    THEN [k \in DOMAIN ch |-> IF ch[k].iface = iface
                              THEN [iface |-> iface, name |-> new_name]
                              ELSE ch[k]]
    ELSE Append(ch, [iface |-> iface, name |-> new_name])

----------------------------------------------------------------------------
(* process_link_changes, lines 163-182: the match tables *)

\* Faulty variant: an existing key is kept (setdefault), the first rule wins.
AddRule_first_wins(tables, r) ==
    IF r.empty \/ r.id = "renderer" \/ r.set_name = None \/ ~r.has_match THEN tables
    ELSE [by_driver |-> IF r.driver # None /\ r.driver \notin DOMAIN tables.by_driver
                        THEN Put(tables.by_driver, r.driver, r.set_name)
                        ELSE tables.by_driver,
          by_mac    |-> IF r.macaddress # None /\ r.macaddress \notin DOMAIN tables.by_mac
                        THEN Put(tables.by_mac, r.macaddress, r.set_name)
                        ELSE tables.by_mac]

\* One iteration of `for phy, settings in phys.items()`.
AddRule(tables, r) ==
    IF r.empty THEN tables                      \* if not settings: continue
    ELSE IF r.id = "renderer" THEN tables       \* if phy == 'renderer': continue
    ELSE IF r.set_name = None THEN tables       \* if not newname: continue
    ELSE IF ~r.has_match THEN tables            \* if not match: continue
    ELSE [by_driver |-> IF r.driver # None
                        THEN Put(tables.by_driver, r.driver, r.set_name)
                        ELSE tables.by_driver,
          by_mac    |-> IF r.macaddress # None
                        THEN Put(tables.by_mac, r.macaddress, r.set_name)
                        ELSE tables.by_mac]

\* Lines 163-165
NoMatches == [by_driver |-> EmptyDict, by_mac |-> EmptyDict]

RECURSIVE BuildMatchesUpTo(_, _)
BuildMatchesUpTo(rules, n) ==
    IF n = 0 THEN NoMatches
    ELSE AddRule(BuildMatchesUpTo(rules, n - 1), rules[n])

BuildMatches(rules) == BuildMatchesUpTo(rules, Len(rules))

----------------------------------------------------------------------------
(* is_composite_member, lines 134-147 *)

\* Faulty variant: only the first composite dict (the bridges) is searched.
is_composite_member_bridges_only(composites, phy) ==
    \E settings \in composites[1] :
        \E iface \in settings.interfaces : iface = phy

is_composite_member(composites, phy) ==
    \E c \in DOMAIN composites :
        \E settings \in composites[c] :
            \E iface \in settings.interfaces : iface = phy

----------------------------------------------------------------------------
(* process_link_changes, lines 186-227: one interface *)

KernelIndex(kernel, name) == CHOOSE k \in DOMAIN kernel : kernel[k].name = name

\* open(os.path.join(devdir, 'operstate')).read().strip(), or the IOError
ReadOperstate(kernel, interface) == kernel[KernelIndex(kernel, interface)].operstate

\* Faulty variant: only an interface that reads 'up' is left alone.
NotDown_up_only(state) == state = "up"

\* Faulty variant: the test is inverted, only 'down' interfaces are left alone.
NotDown_inverted(state) == state = "down"

\* Lines 198-206: the interface is left alone unless operstate reads 'down'.
NotDown(state) == state = Unreadable \/ state # "down"

\* Lines 209-210: os.path.realpath() does not raise on a missing link, it
\* returns the path unresolved, whose basename is the literal 'driver'.
DriverName(kernel, interface) ==
    LET d == kernel[KernelIndex(kernel, interface)].driver
    IN IF d = NoLink THEN "driver" ELSE d

\* Lines 216-217
MacAddress(kernel, interface) == kernel[KernelIndex(kernel, interface)].addr

\* Lines 218-223
DriverStep(ch, tables, interface, driver_name) ==
    IF driver_name \in DOMAIN tables.by_driver
       /\ tables.by_driver[driver_name] # interface
    THEN Update(ch, interface, tables.by_driver[driver_name])
    ELSE ch

\* Lines 224-227
MacStep(ch, tables, interface, macaddress) ==
    IF macaddress \in DOMAIN tables.by_mac
       /\ tables.by_mac[macaddress] # interface
    THEN Update(ch, interface, tables.by_mac[macaddress])
    ELSE ch

\* Faulty variant: tests that something is declared, not that this interface is.
IsPhysical_any_declared(rules, interface) == Keys(rules) # {}

\* Lines 187-190
IsPhysical(rules, interface) == interface \in Keys(rules)

ProcessInterface(ch, interface, rules, composites, tables, kernel) ==
    IF ~IsPhysical(rules, interface) THEN ch
    ELSE IF is_composite_member(composites, interface) THEN ch
    ELSE IF NotDown(ReadOperstate(kernel, interface)) THEN ch
    ELSE MacStep(DriverStep(ch, tables, interface, DriverName(kernel, interface)),
                 tables, interface, MacAddress(kernel, interface))

RECURSIVE ProcessUpTo(_, _, _, _, _, _)
ProcessUpTo(interfaces, n, rules, composites, tables, kernel) ==
    IF n = 0 THEN <<>>
    ELSE ProcessInterface(
             ProcessUpTo(interfaces, n - 1, rules, composites, tables, kernel),
             interfaces[n], rules, composites, tables, kernel)

\* process_link_changes(interfaces, config_manager), read against the kernel
process_link_changes(interfaces, rules, br, bo, kernel) ==
    ProcessUpTo(interfaces, Len(interfaces), rules, <<br, bo>>,
                BuildMatches(rules), kernel)

----------------------------------------------------------------------------
(* External primitives *)

\* netifaces.interfaces()
Interfaces(kernel) == [k \in DOMAIN kernel |-> kernel[k].name]

\* `ip link set dev iface name new_name` succeeds only on an existing device
\* and a name no other device holds.
CanRename(kernel, iface, new_name) ==
    /\ \E k \in DOMAIN kernel : kernel[k].name = iface
    /\ \A k \in DOMAIN kernel : kernel[k].name # new_name

DoRename(kernel, iface, new_name) ==
    [k \in DOMAIN kernel |-> IF kernel[k].name = iface
                             THEN [kernel[k] EXCEPT !.name = new_name]
                             ELSE kernel[k]]

\* One entry of the call log: the primitive, its argument(s), whether it succeeded.
Call(op, arg, to, ok) == [op |-> op, arg |-> arg, to |-> to, ok |-> ok]

----------------------------------------------------------------------------
(* Input domains *)

\* Number of times the planner is run on the same host.
MaxPasses == 2

Rule(id, set_name, driver, macaddress) ==
    [id |-> id, empty |-> FALSE, set_name |-> set_name, has_match |-> TRUE,
     driver |-> driver, macaddress |-> macaddress]

Iface(name, operstate, driver, addr) ==
    [name |-> name, operstate |-> operstate, driver |-> driver, addr |-> addr]

\* Ordered dicts of at most two rules with distinct keys.
PhysConfigs(ids, targets, drivers, macs) ==
    LET R == {Rule(i, t, d, m) : i \in ids, t \in targets,
                                 d \in drivers \cup {None}, m \in macs \cup {None}}
        S == {r \in R : r.driver # None \/ r.macaddress # None}
    IN {<<>>} \cup {<<r>> : r \in S}
              \cup {p \in {<<r1, r2>> : r1 \in S, r2 \in S} : p[1].id # p[2].id}

\* Kernel interface lists of at most n devices, in kernel index order.
RECURSIVE LiveConfigs(_, _, _, _, _)
LiveConfigs(n, names, states, drivers, addrs) ==
    IF n = 0 THEN {<<>>}
    ELSE LET shorter == LiveConfigs(n - 1, names, states, drivers, addrs)
         IN shorter \cup
            {Append(l, Iface(nm, st, d, a)) :
                l \in {x \in shorter : Len(x) = n - 1},
                nm \in names, st \in states, d \in drivers, a \in addrs}

DistinctNames(kernel) ==
    \A j, k \in DOMAIN kernel : j # k => kernel[j].name # kernel[k].name

OperStates == {"down", "up", "unknown", Unreadable}

----------------------------------------------------------------------------
(* The rename planner run repeatedly: process_link_changes on the current  *)
(* kernel state, its renames applied as command_apply applies them (lines  *)
(* 111-119), then the next run on the same declared configuration.         *)

PlannerNames == {"eth0", "eth1"}
PlannerTargets == {"eth0", "eth1", "lan0"}

PlannerInit ==
    /\ phys \in PhysConfigs(PlannerNames, PlannerTargets, {"e1000"}, {"m1"})
    /\ bridges \in {{}, {[id |-> "br0", interfaces |-> {"eth0"}]}}
    /\ bonds \in {{}, {[id |-> "bond0", interfaces |-> {"eth1"}]}}
    /\ live \in {l \in LiveConfigs(Cardinality(PlannerNames), PlannerNames, OperStates,
                                    {"e1000", NoLink}, {"m1", "m2"}) :
                    DistinctNames(l)}
    /\ files_networkd = FALSE /\ files_nm = FALSE
    /\ run_generate = FALSE /\ exit_on_error = FALSE
    /\ old_files_networkd = FALSE /\ old_files_nm = FALSE
    /\ restart_networkd = FALSE /\ restart_nm = FALSE
    /\ devices = <<>> /\ changes = <<>> /\ idx = 0
    /\ pc = "planner" /\ outcome = "running" /\ calls = <<>>
    /\ pass = 1 /\ hist = <<>>
    /\ matches = NoMatches

\* Lines 59, 98-99
PlannerRun ==
    /\ pc = "planner"
    /\ devices' = Interfaces(live)
    /\ matches' = BuildMatches(phys)
    /\ changes' = process_link_changes(devices', phys, bridges, bonds, live)
    /\ idx' = 1
    /\ pc' = "apply"
    /\ UNCHANGED <<config, live, files_networkd, files_nm, params, locals,
                   outcome, calls, pass, hist>>

\* Lines 111-119: one iteration; check_call raises when `ip` fails.
PlannerApply ==
    /\ pc = "apply"
    /\ idx <= Len(changes)
    /\ LET iface == changes[idx].iface
           new_name == changes[idx].name
       IN IF CanRename(live, iface, new_name)
          THEN /\ live' = DoRename(live, iface, new_name)
               /\ calls' = Append(calls, Call("rename", iface, new_name, TRUE))
               /\ idx' = idx + 1
               /\ UNCHANGED <<pc, outcome>>
          ELSE /\ calls' = Append(calls, Call("rename", iface, new_name, FALSE))
               /\ outcome' = "CalledProcessError"
               /\ pc' = "planner_end"
               /\ UNCHANGED <<live, idx>>
    /\ UNCHANGED <<config, matches, files_networkd, files_nm, params, locals, devices,
                   changes, pass, hist>>

PlannerApplied ==
    /\ pc = "apply"
    /\ idx > Len(changes)
    /\ outcome' = "ok"
    /\ pc' = "planner_end"
    /\ UNCHANGED <<config, matches, live, files_networkd, files_nm, params, locals,
                   devices, changes, idx, calls, pass, hist>>

\* The operator runs the command again.
PlannerRerun ==
    /\ pc = "planner_end"
    /\ pass < MaxPasses
    /\ pass' = pass + 1
    /\ hist' = Append(hist, [names |-> devices, applied |-> outcome = "ok"])
    /\ pc' = "planner"
    /\ outcome' = "running"
    /\ calls' = <<>>
    /\ idx' = 0
    /\ UNCHANGED <<config, matches, live, files_networkd, files_nm, params, locals,
                   devices, changes>>

PlannerNext == PlannerRun \/ PlannerApply \/ PlannerApplied \/ PlannerRerun

PlannerSpec == PlannerInit /\ [][PlannerNext]_vars

----------------------------------------------------------------------------
(* command_apply, lines 48-131: one pass.  `sync` only selects how         *)
(* systemctl waits and is left out.                                        *)

\* Declared rules of a pass: by hardware address, by driver and address,
\* one driver rule declared twice (both devices match it), none.
ApplyPhys ==
    { <<Rule("eth0", "lan0", None, "m1"), Rule("eth1", "wan0", None, "m2")>>,
      <<Rule("eth0", "lan0", "e1000", None), Rule("eth1", "wan0", None, "m2")>>,
      <<Rule("eth0", "lan0", "e1000", None), Rule("eth1", "lan0", "e1000", None)>>,
      <<>> }

Init ==
    /\ phys \in ApplyPhys
    /\ bridges = {}
    /\ bonds \in {{}, {[id |-> "bond0", interfaces |-> {"eth1"}]}}
    /\ live \in {<<Iface("eth0", s0, "e1000", "m1"), Iface("eth1", s1, "e1000", "m2")>> :
                    s0 \in OperStates, s1 \in OperStates}
    /\ files_networkd \in BOOLEAN /\ files_nm \in BOOLEAN
    /\ run_generate \in BOOLEAN /\ exit_on_error \in BOOLEAN
    /\ old_files_networkd = FALSE /\ old_files_nm = FALSE
    /\ restart_networkd = FALSE /\ restart_nm = FALSE
    /\ devices = <<>> /\ changes = <<>> /\ idx = 0
    /\ pc = "snapshot_before" /\ outcome = "running" /\ calls = <<>>
    /\ pass = 1 /\ hist = <<>>
    /\ matches = NoMatches

host == <<live, files_networkd, files_nm>>
planner == <<pass, hist>>

\* Lines 49-50
SnapshotBefore ==
    /\ pc = "snapshot_before"
    /\ old_files_networkd' = files_networkd
    /\ old_files_nm' = files_nm
    /\ pc' = "generate"
    /\ UNCHANGED <<config, matches, host, params, restart_networkd, restart_nm, devices,
                   changes, idx, outcome, calls, planner>>

\* Line 52, run_generate false: the generator is not invoked.
GenerateSkip ==
    /\ pc = "generate"
    /\ ~run_generate
    /\ pc' = "decide"
    /\ UNCHANGED <<config, matches, host, params, locals, devices, changes, idx, outcome,
                   calls, planner>>

\* Line 52, the generator exits 0, having written or removed artifacts.
GenerateOk ==
    /\ pc = "generate"
    /\ run_generate
    /\ files_networkd' \in BOOLEAN
    /\ files_nm' \in BOOLEAN
    /\ calls' = Append(calls, Call("generate", None, None, TRUE))
    /\ pc' = "decide"
    /\ UNCHANGED <<config, matches, live, params, locals, devices, changes, idx, outcome,
                   planner>>

\* Faulty variant: the generator's exit code is ignored.
GenerateFail_continues ==
    /\ pc = "generate"
    /\ run_generate
    /\ calls' = Append(calls, Call("generate", None, None, FALSE))
    /\ pc' = "decide"
    /\ UNCHANGED <<config, matches, host, params, locals, devices, changes, idx, outcome,
                   planner>>

\* Lines 52-56, the generator exits non-zero: sys.exit(os.EX_CONFIG) or
\* raise ConfigurationError.
GenerateFail ==
    /\ pc = "generate"
    /\ run_generate
    /\ calls' = Append(calls, Call("generate", None, None, FALSE))
    /\ outcome' = IF exit_on_error THEN "EX_CONFIG" ELSE "ConfigurationError"
    /\ pc' = "end"
    /\ UNCHANGED <<config, matches, host, params, locals, devices, changes, idx, planner>>

\* Faulty variant: artifacts that existed before generation are forgotten.
RestartDecision_now_only(files_now, old_files) == files_now

\* Lines 67-69 and 70-72
RestartDecision(files_now, old_files) ==
    IF ~files_now /\ old_files THEN TRUE ELSE files_now

\* Lines 58-72
Decide ==
    /\ pc = "decide"
    /\ devices' = Interfaces(live)
    /\ restart_networkd' = RestartDecision(files_networkd, old_files_networkd)
    /\ restart_nm' = RestartDecision(files_nm, old_files_nm)
    /\ pc' = "stop_networkd"
    /\ UNCHANGED <<config, matches, host, params, old_files_networkd, old_files_nm,
                   changes, idx, outcome, calls, planner>>

\* Faulty variant: the test of line 75 is inverted.
StopNetworkd_inverted ==
    /\ pc = "stop_networkd"
    /\ calls' = IF ~restart_networkd
                THEN Append(calls, Call("stop", "networkd", None, TRUE))
                ELSE calls
    /\ pc' = "stop_nm"
    /\ UNCHANGED <<config, matches, host, params, locals, devices, changes, idx,
                   outcome, planner>>

\* Lines 75-79
StopNetworkd ==
    /\ pc = "stop_networkd"
    /\ calls' = IF restart_networkd
                THEN Append(calls, Call("stop", "networkd", None, TRUE))
                ELSE calls
    /\ pc' = "stop_nm"
    /\ UNCHANGED <<config, matches, host, params, locals, devices, changes, idx, outcome,
                   planner>>

\* Lines 81, 93-94: NetworkManager is not to be restarted.
NmKeep ==
    /\ pc = "stop_nm"
    /\ ~restart_nm
    /\ pc' = "plan"
    /\ UNCHANGED <<config, matches, host, params, locals, devices, changes, idx, outcome,
                   calls, planner>>

\* Lines 81-83: utils.nm_running() decides whether anything is stopped.
NmProbe ==
    /\ pc = "stop_nm"
    /\ restart_nm
    /\ \E running \in BOOLEAN :
          /\ calls' = Append(calls, Call("nm_running", None, None, running))
          /\ pc' = IF running THEN "disconnect" ELSE "plan"
    /\ idx' = 1
    /\ UNCHANGED <<config, matches, host, params, locals, devices, changes, outcome,
                   planner>>

\* Faulty variant: no try/except, a failing disconnect ends the pass.
Disconnect_uncaught ==
    /\ pc = "disconnect"
    /\ idx <= Len(devices)
    /\ \E ok \in BOOLEAN :
          /\ calls' = Append(calls, Call("disconnect", devices[idx], None, ok))
          /\ IF ok THEN idx' = idx + 1 /\ UNCHANGED <<pc, outcome>>
                   ELSE pc' = "end" /\ outcome' = "CalledProcessError" /\ idx' = idx
    /\ UNCHANGED <<config, matches, host, params, locals, devices, changes, planner>>

\* Lines 85-90: nmcli device disconnect; CalledProcessError is swallowed.
Disconnect ==
    /\ pc = "disconnect"
    /\ idx <= Len(devices)
    /\ \E ok \in BOOLEAN :
          calls' = Append(calls, Call("disconnect", devices[idx], None, ok))
    /\ idx' = idx + 1
    /\ UNCHANGED <<config, matches, host, params, locals, devices, changes, pc, outcome,
                   planner>>

\* Line 92
NmStop ==
    /\ pc = "disconnect"
    /\ idx > Len(devices)
    /\ calls' = Append(calls, Call("stop", "NetworkManager", None, TRUE))
    /\ pc' = "plan"
    /\ UNCHANGED <<config, matches, host, params, locals, devices, changes, idx, outcome,
                   planner>>

\* Lines 98-99
Plan ==
    /\ pc = "plan"
    /\ matches' = BuildMatches(phys)
    /\ changes' = process_link_changes(devices, phys, bridges, bonds, live)
    /\ idx' = 1
    /\ pc' = "trigger"
    /\ UNCHANGED <<config, host, params, locals, devices, outcome, calls, planner>>

\* Faulty variant: only the devices to be renamed are triggered.
TriggerOk_planned_only ==
    /\ pc = "trigger"
    /\ idx <= Len(devices)
    /\ calls' = IF HasChange(changes, devices[idx])
                THEN Append(calls, Call("trigger", devices[idx], None, TRUE))
                ELSE calls
    /\ idx' = idx + 1
    /\ UNCHANGED <<config, matches, host, params, locals, devices, changes, pc,
                   outcome, planner>>

\* Lines 102-108: udevadm test-builtin net_setup_link returns 0.
TriggerOk ==
    /\ pc = "trigger"
    /\ idx <= Len(devices)
    /\ calls' = Append(calls, Call("trigger", devices[idx], None, TRUE))
    /\ idx' = idx + 1
    /\ UNCHANGED <<config, matches, host, params, locals, devices, changes, pc, outcome,
                   planner>>

\* Lines 104-108: check_call raises CalledProcessError, which nothing catches.
TriggerFail ==
    /\ pc = "trigger"
    /\ idx <= Len(devices)
    /\ calls' = Append(calls, Call("trigger", devices[idx], None, FALSE))
    /\ outcome' = "CalledProcessError"
    /\ pc' = "end"
    /\ UNCHANGED <<config, matches, host, params, locals, devices, changes, idx, planner>>

\* Line 102, the loop is exhausted.
TriggerDone ==
    /\ pc = "trigger"
    /\ idx > Len(devices)
    /\ idx' = 1
    /\ pc' = "rename"
    /\ UNCHANGED <<config, matches, host, params, locals, devices, changes, outcome,
                   calls, planner>>

\* Lines 111-119: `ip link set dev iface name new_name` returns 0.  The
\* test of line 112 holds for every entry: the planner only records the
\* non-empty set-name of a rule.
RenameOk ==
    /\ pc = "rename"
    /\ idx <= Len(changes)
    /\ changes[idx].name # None
    /\ CanRename(live, changes[idx].iface, changes[idx].name)
    /\ live' = DoRename(live, changes[idx].iface, changes[idx].name)
    /\ calls' = Append(calls, Call("rename", changes[idx].iface, changes[idx].name, TRUE))
    /\ idx' = idx + 1
    /\ UNCHANGED <<config, matches, files_networkd, files_nm, params, locals, devices,
                   changes, pc, outcome, planner>>

\* Lines 115-119: check_call raises CalledProcessError, which nothing catches.
RenameFail ==
    /\ pc = "rename"
    /\ idx <= Len(changes)
    /\ changes[idx].name # None
    /\ calls' = Append(calls, Call("rename", changes[idx].iface, changes[idx].name, FALSE))
    /\ outcome' = "CalledProcessError"
    /\ pc' = "end"
    /\ UNCHANGED <<config, matches, host, params, locals, devices, changes, idx, planner>>

\* Faulty variant: the backends are started right after the renames.
RenameDone_skips_settle ==
    /\ pc = "rename"
    /\ idx > Len(changes)
    /\ pc' = "start_networkd"
    /\ UNCHANGED <<config, matches, host, params, locals, devices, changes, idx, outcome,
                   calls, planner>>

\* Line 111, the loop is exhausted.
RenameDone ==
    /\ pc = "rename"
    /\ idx > Len(changes)
    /\ pc' = "settle"
    /\ UNCHANGED <<config, matches, host, params, locals, devices, changes, idx, outcome,
                   calls, planner>>

\* Line 121: udevadm settle returns 0.
SettleOk ==
    /\ pc = "settle"
    /\ calls' = Append(calls, Call("settle", None, None, TRUE))
    /\ pc' = "start_networkd"
    /\ UNCHANGED <<config, matches, host, params, locals, devices, changes, idx, outcome,
                   planner>>

\* Faulty variant: the exit code of udevadm settle is ignored.
SettleFail_ignored ==
    /\ pc = "settle"
    /\ calls' = Append(calls, Call("settle", None, None, FALSE))
    /\ pc' = "start_networkd"
    /\ UNCHANGED <<config, matches, host, params, locals, devices, changes, idx,
                   outcome, planner>>

\* Line 121: check_call raises CalledProcessError.
SettleFail ==
    /\ pc = "settle"
    /\ calls' = Append(calls, Call("settle", None, None, FALSE))
    /\ outcome' = "CalledProcessError"
    /\ pc' = "end"
    /\ UNCHANGED <<config, matches, host, params, locals, devices, changes, idx, planner>>

\* Lines 124-128
StartNetworkd ==
    /\ pc = "start_networkd"
    /\ calls' = IF restart_networkd
                THEN Append(calls, Call("start", "networkd", None, TRUE))
                ELSE calls
    /\ pc' = "start_nm"
    /\ UNCHANGED <<config, matches, host, params, locals, devices, changes, idx, outcome,
                   planner>>

\* Lines 129-131, and the return
StartNm ==
    /\ pc = "start_nm"
    /\ calls' = IF restart_nm
                THEN Append(calls, Call("start", "NetworkManager", None, TRUE))
                ELSE calls
    /\ outcome' = "ok"
    /\ pc' = "end"
    /\ UNCHANGED <<config, matches, host, params, locals, devices, changes, idx, planner>>

Next ==
    \/ SnapshotBefore \/ GenerateSkip \/ GenerateOk \/ GenerateFail
    \/ Decide \/ StopNetworkd \/ NmKeep \/ NmProbe \/ Disconnect \/ NmStop
    \/ Plan \/ TriggerOk \/ TriggerFail \/ TriggerDone
    \/ RenameOk \/ RenameFail \/ RenameDone
    \/ SettleOk \/ SettleFail \/ StartNetworkd \/ StartNm

Spec == Init /\ [][Next]_vars

----------------------------------------------------------------------------
(* Properties of the rename planner (PlannerSpec) *)

\* Names listed under 'interfaces' of any declared bridge or bond.
DeclaredMembers == UNION {c.interfaces : c \in bridges \cup bonds}

\* The planner has just returned; no rename of this run has been applied yet.
JustPlanned == pc = "apply" /\ idx = 1

\* The kernel device k is one the planner considers: declared physical, not
\* a composite member, operstate down.
Eligible(k) ==
    /\ live[k].name \in Keys(phys)
    /\ live[k].name \notin DeclaredMembers
    /\ live[k].operstate = "down"

\* Some table maps device k to a name other than its own.
TableHit(k) ==
    LET m == BuildMatches(phys)
        d == DriverName(live, live[k].name)
    IN \/ d \in DOMAIN m.by_driver /\ m.by_driver[d] # live[k].name
       \/ live[k].addr \in DOMAIN m.by_mac /\ m.by_mac[live[k].addr] # live[k].name

\* C1: the change set returned by process_link_changes never contains an
\* interface whose name is a member of a declared bridge or bond.
C1_NoCompositeMember ==
    \A k \in DOMAIN changes : changes[k].iface \notin DeclaredMembers

\* A down, declared, table-matching member of a bond was left out of a
\* change set that renames another device.
C1_Witness ==
    /\ JustPlanned
    /\ changes # <<>>
    /\ \E k \in DOMAIN live :
          /\ \E c \in bonds : live[k].name \in c.interfaces
          /\ live[k].name \in Keys(phys)
          /\ live[k].operstate = "down"
          /\ TableHit(k)

\* C4: after a first run whose renames were all applied, the second run of
\* the planner on the same configuration returns an empty change set.
C4_Idempotent ==
    (pc = "apply" /\ pass >= 2 /\ hist[pass - 1].applied) => changes = <<>>

\* The name the plan leaves device k with.
FinalName(k) ==
    IF HasChange(changes, live[k].name)
    THEN changes[CHOOSE j \in DOMAIN changes : changes[j].iface = live[k].name].name
    ELSE live[k].name

\* C5: an eligible interface whose driver maps to A in by-driver and whose
\* address maps to a different B in by-mac ends up as B, whatever its
\* current name.
C5_MacPrecedence ==
    JustPlanned =>
        \A k \in DOMAIN live :
            LET m == BuildMatches(phys)
                d == DriverName(live, live[k].name)
                a == live[k].addr
            IN (/\ Eligible(k)
                /\ d \in DOMAIN m.by_driver
                /\ a \in DOMAIN m.by_mac
                /\ m.by_driver[d] # m.by_mac[a])
               => FinalName(k) = m.by_mac[a]

\* Interface names, by kernel index, at the start of every run so far and now.
Timeline ==
    [p \in 1..Len(hist) |-> hist[p].names] \o <<devices, Interfaces(live)>>

\* C10: repeated passes converge; no interface is renamed from one name to
\* another and back again by successive passes.
C10_NoOscillation ==
    \A p \in 1..(Len(Timeline) - 2) :
        \A k \in DOMAIN live :
            (Len(Timeline[p]) >= k /\ Len(Timeline[p + 1]) >= k)
            => ~(Timeline[p][k] # Timeline[p + 1][k]
                 /\ Timeline[p + 2][k] = Timeline[p][k])

----------------------------------------------------------------------------
(* Properties of one pass of command_apply (Spec) *)

Called(op, arg) == \E k \in DOMAIN calls : calls[k].op = op /\ calls[k].arg = arg

GeneratorFailed == \E k \in DOMAIN calls : calls[k].op = "generate" /\ ~calls[k].ok

SettleFailed == \E k \in DOMAIN calls : calls[k].op = "settle" /\ ~calls[k].ok

\* The step invokes the rename primitive.
RenameCall ==
    /\ Len(calls') = Len(calls) + 1
    /\ calls'[Len(calls')].op = "rename"

\* C2: the change set never contains an interface whose operstate is not
\* 'down' (up, unknown, unreadable), and the rename primitive is never
\* invoked on such an interface.
C2_OnlyDownRenamed ==
    /\ [](\A e \in DOMAIN changes :
            \E k \in DOMAIN devices :
                devices[k] = changes[e].iface /\ live[k].operstate = "down")
    /\ [][RenameCall =>
            \E k \in DOMAIN live :
                /\ live[k].name = calls'[Len(calls')].arg
                /\ live[k].operstate = "down"]_vars

\* A pass renamed one device and left alone a declared, table-matching
\* device whose operstate is not 'down'.
C2_Witness ==
    /\ pc = "end" /\ outcome = "ok"
    /\ \E k \in DOMAIN calls : calls[k].op = "rename" /\ calls[k].ok
    /\ \E k \in DOMAIN live :
          /\ live[k].operstate \in {"unknown", Unreadable}
          /\ live[k].name \in Keys(phys)
          /\ live[k].name \notin DeclaredMembers
          /\ TableHit(k)

\* C3: no rename before the stop phase is over for every backend to be
\* restarted; settle only after every rename; no start before settle
\* has returned.
C3_PhaseOrder ==
    \A k \in DOMAIN calls :
        /\ calls[k].op = "rename" =>
              /\ restart_networkd =>
                    \E j \in 1..(k - 1) : calls[j].op = "stop" /\ calls[j].arg = "networkd"
              /\ restart_nm =>
                    \E j \in 1..(k - 1) :
                        /\ calls[j].op = "nm_running"
                        /\ calls[j].ok =>
                              \E j2 \in (j + 1)..(k - 1) :
                                  calls[j2].op = "stop" /\ calls[j2].arg = "NetworkManager"
              /\ \A j \in (k + 1)..Len(calls) :
                    calls[j].op \notin {"stop", "disconnect", "nm_running"}
        /\ calls[k].op = "settle" =>
              /\ \A j \in (k + 1)..Len(calls) : calls[j].op # "rename"
              /\ \A e \in DOMAIN changes :
                    \E j \in 1..(k - 1) :
                        calls[j].op = "rename" /\ calls[j].arg = changes[e].iface
        /\ calls[k].op = "start" =>
              \E j \in 1..(k - 1) : calls[j].op = "settle" /\ calls[j].ok

\* A complete pass that stopped both backends, renamed a device and
\* started both backends.
C3_Witness ==
    /\ pc = "end" /\ outcome = "ok"
    /\ Called("stop", "networkd") /\ Called("stop", "NetworkManager")
    /\ \E k \in DOMAIN calls : calls[k].op = "rename"
    /\ Called("start", "networkd") /\ Called("start", "NetworkManager")

\* C6: when the rename primitive fails for one entry of the change set, it
\* is still invoked for every other entry in the same pass.
C6_OtherRenamesProceed ==
    (pc = "end" /\ \E k \in DOMAIN calls : calls[k].op = "rename" /\ ~calls[k].ok)
    => \A e \in DOMAIN changes : Called("rename", changes[e].iface)

\* C7: a backend stopped in a pass is started again in that pass, also when
\* a link-rule trigger or a rename failed.
C7_StoppedBackendsRestarted ==
    (pc = "end" /\ ~GeneratorFailed /\ ~SettleFailed)
    => \A b \in {"networkd", "NetworkManager"} :
           Called("stop", b) => Called("start", b)

\* C8: the restart decision of each backend is (artifacts before
\* generation) or (artifacts after generation); a pass that reaches the
\* start phase starts exactly the backends whose decision is true.
C8_RestartDecision ==
    /\ pc = "generate" =>
          old_files_networkd = files_networkd /\ old_files_nm = files_nm
    /\ (pc \notin {"snapshot_before", "generate", "decide"} /\ ~GeneratorFailed) =>
          /\ restart_networkd = (old_files_networkd \/ files_networkd)
          /\ restart_nm = (old_files_nm \/ files_nm)
    /\ (pc = "end" /\ outcome = "ok") =>
          /\ Called("start", "networkd") <=> restart_networkd
          /\ Called("start", "NetworkManager") <=> restart_nm

\* A complete pass after the generator removed the networkd artifacts:
\* networkd is started, NetworkManager (no artifacts before or after) is not.
C8_Witness ==
    /\ pc = "end" /\ outcome = "ok"
    /\ old_files_networkd /\ ~files_networkd
    /\ ~old_files_nm /\ ~files_nm
    /\ Called("start", "networkd") /\ ~Called("start", "NetworkManager")

\* C9: a failing generator ends the pass at once, with exit code EX_CONFIG
\* if exit_on_error and ConfigurationError otherwise, and no other
\* primitive is invoked; without run_generate the generator is not invoked.
C9_GeneratorFailureAborts ==
    /\ GeneratorFailed =>
          /\ pc = "end"
          /\ calls = <<Call("generate", None, None, FALSE)>>
          /\ outcome = IF exit_on_error THEN "EX_CONFIG" ELSE "ConfigurationError"
    /\ outcome \in {"EX_CONFIG", "ConfigurationError"} => GeneratorFailed
    /\ ~run_generate =>
          /\ \A k \in DOMAIN calls : calls[k].op # "generate"
          /\ outcome \notin {"EX_CONFIG", "ConfigurationError"}

\* The generator failed in non-fatal mode with networkd artifacts on disk.
C9_Witness ==
    /\ GeneratorFailed
    /\ ~exit_on_error /\ outcome = "ConfigurationError"
    /\ old_files_networkd

----------------------------------------------------------------------------
(* The end-to-end scenario: eth0 (up, e1000), eth1 (down, e1000), eth2     *)
(* (down, MAC aa:bb:cc:dd:ee:ff); rules e1000 -> lan0 and that MAC ->      *)
(* wan0; no bridges or bonds.  What the scenario leaves open is drawn      *)
(* here: the keys the two rules are declared under, their order, whether   *)
(* the other interfaces are declared too (without a rule), eth0's          *)
(* address, eth2's driver, the kernel's order of the devices.              *)

ScenarioMac == "aa:bb:cc:dd:ee:ff"
ScenarioKeys == {"eth0", "eth1", "eth2", "lan", "wan"}
ScenarioNames == {"eth0", "eth1", "eth2"}

\* A declared interface with no set-name and no match block.
Declared(id) ==
    [id |-> id, empty |-> FALSE, set_name |-> None, has_match |-> FALSE,
     driver |-> None, macaddress |-> None]

RECURSIVE DeclareAll(_, _)
DeclareAll(rules, names) ==
    IF names = {} THEN rules
    ELSE LET n == CHOOSE x \in names : TRUE
         IN DeclareAll(IF n \in Keys(rules) THEN rules ELSE Append(rules, Declared(n)),
                       names \ {n})

ScenarioPhys ==
    LET two == {<<Rule(k1, "lan0", "e1000", None), Rule(k2, "wan0", None, ScenarioMac)>> :
                    k1 \in ScenarioKeys, k2 \in ScenarioKeys}
                \cup
               {<<Rule(k2, "wan0", None, ScenarioMac), Rule(k1, "lan0", "e1000", None)>> :
                    k1 \in ScenarioKeys, k2 \in ScenarioKeys}
        ok == {p \in two : p[1].id # p[2].id}
    IN ok \cup {DeclareAll(p, ScenarioNames) : p \in ok}

ScenarioLive ==
    LET devs == {<<Iface("eth0", "up", "e1000", a0),
                   Iface("eth1", "down", "e1000", "m1"),
                   Iface("eth2", "down", d2, ScenarioMac)>> :
                     a0 \in {"m0", ScenarioMac}, d2 \in {"e1000", "virtio_net", NoLink}}
        perms == {f \in [1..3 -> 1..3] : \A i, j \in 1..3 : i # j => f[i] # f[j]}
    IN {[k \in 1..3 |-> d[f[k]]] : d \in devs, f \in perms}

ScenarioInit ==
    /\ phys \in ScenarioPhys
    /\ bridges = {} /\ bonds = {}
    /\ live \in ScenarioLive
    /\ files_networkd = FALSE /\ files_nm = FALSE
    /\ run_generate = FALSE /\ exit_on_error = FALSE
    /\ old_files_networkd = FALSE /\ old_files_nm = FALSE
    /\ restart_networkd = FALSE /\ restart_nm = FALSE
    /\ devices = <<>> /\ changes = <<>> /\ idx = 0
    /\ pc = "planner" /\ outcome = "running" /\ calls = <<>>
    /\ pass = 1 /\ hist = <<>>
    /\ matches = NoMatches

ScenarioSpec == ScenarioInit /\ [][PlannerNext]_vars

\* The change set as a dict: the set of its (interface, new name) items.
ChangeItems == {<<changes[k].iface, changes[k].name>> : k \in DOMAIN changes}

FirstPlan == JustPlanned /\ pass = 1

\* C11 as stated: in the scenario process_link_changes returns exactly
\* {eth1: lan0, eth2: wan0}.
C11_Scenario ==
    FirstPlan => ChangeItems = {<<"eth1", "lan0">>, <<"eth2", "wan0">>}

\* C11 amended: in the scenario, with eth1 and eth2 keys of the declared
\* physical interfaces, process_link_changes returns exactly
\* {eth1: lan0, eth2: wan0}.
C11_ScenarioDeclared ==
    (FirstPlan /\ {"eth1", "eth2"} \subseteq Keys(phys))
    => ChangeItems = {<<"eth1", "lan0">>, <<"eth2", "wan0">>}

\* The scenario planned with the rules declared under eth1 and eth2, eth2
\* matching the driver rule as well as the address rule.
C11_Witness ==
    /\ FirstPlan
    /\ Keys(phys) = {"eth1", "eth2"}
    /\ \E k \in DOMAIN live : live[k].name = "eth2" /\ live[k].driver = "e1000"
    /\ ChangeItems = {<<"eth1", "lan0">>, <<"eth2", "wan0">>}

----------------------------------------------------------------------------
(* Further properties of the rename planner (PlannerSpec) *)

\* C12: a live interface whose name is not a key of the declared physical
\* interfaces is never in the change set, whatever the match tables hold.
C12_OnlyDeclaredPhysical ==
    \A k \in DOMAIN changes : changes[k].iface \in Keys(phys)

\* A down device that is not declared and whose driver or address is a key
\* of a table was left out of a change set that renames the other device.
C12_Witness ==
    /\ FirstPlan
    /\ changes # <<>>
    /\ \E k \in DOMAIN live :
          /\ live[k].name \notin Keys(phys)
          /\ live[k].name \notin DeclaredMembers
          /\ live[k].operstate = "down"
          /\ TableHit(k)
          /\ ~HasChange(changes, live[k].name)

----------------------------------------------------------------------------
(* The match tables over every shape of declared entry: empty settings,    *)
(* the key 'renderer', no set-name, no match block, a match block with     *)
(* a driver, an address, both or neither.                                  *)

TableIds == {"eth0", "eth1", "renderer"}

TableEntries ==
    {[id |-> i, empty |-> TRUE, set_name |-> None, has_match |-> FALSE,
      driver |-> None, macaddress |-> None] : i \in TableIds}
    \cup
    {[id |-> i, empty |-> FALSE, set_name |-> t, has_match |-> FALSE,
      driver |-> None, macaddress |-> None] : i \in TableIds, t \in {None, "lan0", "wan0"}}
    \cup
    {[id |-> i, empty |-> FALSE, set_name |-> t, has_match |-> TRUE,
      driver |-> d, macaddress |-> a] :
        i \in TableIds, t \in {None, "lan0", "wan0"}, d \in {None, "e1000"}, a \in {None, "m1"}}

RECURSIVE TablePhys(_)
TablePhys(n) ==
    IF n = 0 THEN {<<>>}
    ELSE LET shorter == TablePhys(n - 1)
         IN shorter \cup
            {Append(p, e) : p \in {x \in shorter : Len(x) = n - 1},
                            e \in TableEntries}

DistinctKeys(rules) ==
    \A j, k \in DOMAIN rules : j # k => rules[j].id # rules[k].id

TablesInit ==
    /\ phys \in {p \in TablePhys(Cardinality(TableIds)) : DistinctKeys(p)}
    /\ bridges = {} /\ bonds = {}
    /\ live = <<Iface("eth0", "down", "e1000", "m1")>>
    /\ files_networkd = FALSE /\ files_nm = FALSE
    /\ run_generate = FALSE /\ exit_on_error = FALSE
    /\ old_files_networkd = FALSE /\ old_files_nm = FALSE
    /\ restart_networkd = FALSE /\ restart_nm = FALSE
    /\ devices = <<>> /\ changes = <<>> /\ idx = 0
    /\ pc = "planner" /\ outcome = "running" /\ calls = <<>>
    /\ pass = 1 /\ hist = <<>>
    /\ matches = NoMatches

TablesSpec == TablesInit /\ [][PlannerNext]_vars

\* The entry contributes to the tables.
Contributes(r) ==
    ~r.empty /\ r.id # "renderer" /\ r.set_name # None /\ r.has_match

\* Positions of the contributing rules that declare driver d / address a.
DriverRules(d) ==
    {k \in DOMAIN phys : Contributes(phys[k]) /\ phys[k].driver = d}
MacRules(a) ==
    {k \in DOMAIN phys : Contributes(phys[k]) /\ phys[k].macaddress = a}

Last(S) == CHOOSE k \in S : \A j \in S : j <= k

\* The reference tables: every contributing rule's driver and address, each
\* mapped to the set-name of the last rule declaring it.
ReferenceTables ==
    [by_driver |->
        [d \in {phys[k].driver : k \in {j \in DOMAIN phys :
                    Contributes(phys[j]) /\ phys[j].driver # None}}
            |-> phys[Last(DriverRules(d))].set_name],
     by_mac |->
        [a \in {phys[k].macaddress : k \in {j \in DOMAIN phys :
                    Contributes(phys[j]) /\ phys[j].macaddress # None}}
            |-> phys[Last(MacRules(a))].set_name]]

\* The tables of this configuration have been built.
TablesBuilt == pc # "planner" \/ pass > 1

\* C13: the match tables equal the reference: entries that are empty, keyed
\* 'renderer', without set-name or without match block contribute nothing,
\* every other rule contributes its driver and its address, and of two rules
\* declaring the same key the later one wins.
C13_MatchTables == TablesBuilt => matches = ReferenceTables

\* Tables built from two contributing rules that declare the same driver
\* with different targets, and a 'renderer' entry that declares an address.
C13_Witness ==
    /\ TablesBuilt
    /\ \E j, k \in DOMAIN phys :
          /\ j < k
          /\ Contributes(phys[j]) /\ Contributes(phys[k])
          /\ phys[j].driver = "e1000" /\ phys[k].driver = "e1000"
          /\ phys[j].set_name # phys[k].set_name
          /\ matches.by_driver["e1000"] = phys[k].set_name
    /\ \E k \in DOMAIN phys :
          /\ phys[k].id = "renderer"
          /\ phys[k].set_name # None /\ phys[k].macaddress = "m1"
    /\ "m1" \notin DOMAIN matches.by_mac

----------------------------------------------------------------------------
(* Further properties of one pass of command_apply (Spec) *)

\* The stop phase (lines 74-94) is over.
PastStop ==
    \/ pc \in {"plan", "trigger", "rename", "settle", "start_networkd", "start_nm"}
    \/ pc = "end" /\ ~GeneratorFailed

\* utils.nm_running() was called and returned TRUE.
NmWasRunning == \E k \in DOMAIN calls : calls[k].op = "nm_running" /\ calls[k].ok

\* The NetworkManager stop was issued, after a disconnect of every device
\* of the snapshot.
DisconnectedThenStopped ==
    \E s \in DOMAIN calls :
        /\ calls[s].op = "stop" /\ calls[s].arg = "NetworkManager"
        /\ \A d \in DOMAIN devices :
              \E j \in 1..(s - 1) :
                  calls[j].op = "disconnect" /\ calls[j].arg = devices[d]
        /\ \A j \in (s + 1)..Len(calls) : calls[j].op # "disconnect"

\* C14 as stated: whenever the NetworkManager restart decision is true,
\* every live device is disconnected (failures ignored) and then the
\* service is stopped.
C14_DisconnectThenStop ==
    (PastStop /\ restart_nm) => DisconnectedThenStopped

\* C14 amended: whenever the NetworkManager restart decision is true and
\* NetworkManager is running, every live device is disconnected (failures
\* ignored) and then the service is stopped.
C14_DisconnectThenStopIfRunning ==
    (PastStop /\ restart_nm /\ NmWasRunning) => DisconnectedThenStopped

\* The disconnect of the first device failed, the second device was
\* disconnected and NetworkManager stopped all the same.
C14_Witness ==
    /\ PastStop /\ restart_nm /\ NmWasRunning
    /\ \E j \in DOMAIN calls :
          calls[j].op = "disconnect" /\ calls[j].arg = devices[1] /\ ~calls[j].ok
    /\ Called("disconnect", devices[2])
    /\ Called("stop", "NetworkManager")

\* C15: when settle fails the pass ends with an error and no backend is
\* started afterwards.
C15_SettleFailureAborts ==
    SettleFailed =>
        /\ pc = "end"
        /\ outcome = "CalledProcessError"
        /\ \A k \in DOMAIN calls : calls[k].op # "start"

\* Settle failed in a pass that had stopped networkd.
C15_Witness ==
    /\ SettleFailed
    /\ Called("stop", "networkd")
    /\ restart_networkd

----------------------------------------------------------------------------
(* The planner on devices with and without a driver link, the declared     *)
(* drivers including the name 'driver'.                                    *)

DriverInit ==
    /\ phys \in PhysConfigs(PlannerNames, {"lan0", "wan0"}, {"e1000", "driver"}, {"m1"})
    /\ bridges = {} /\ bonds = {}
    /\ live \in {l \in LiveConfigs(Cardinality(PlannerNames), PlannerNames, {"down"},
                                    {"e1000", NoLink}, {"m1", "m2"}) :
                    DistinctNames(l)}
    /\ files_networkd = FALSE /\ files_nm = FALSE
    /\ run_generate = FALSE /\ exit_on_error = FALSE
    /\ old_files_networkd = FALSE /\ old_files_nm = FALSE
    /\ restart_networkd = FALSE /\ restart_nm = FALSE
    /\ devices = <<>> /\ changes = <<>> /\ idx = 0
    /\ pc = "planner" /\ outcome = "running" /\ calls = <<>>
    /\ pass = 1 /\ hist = <<>>
    /\ matches = NoMatches

DriverSpec == DriverInit /\ [][PlannerNext]_vars

\* C16: for an eligible interface without a driver link no rename is ever
\* recorded from the by-driver table, whatever its keys: a rename of it is
\* the by-MAC target of its address.
C16_NoDriverNoDriverMatch ==
    JustPlanned =>
        \A k \in DOMAIN live :
            (Eligible(k) /\ live[k].driver = NoLink /\ HasChange(changes, live[k].name))
            => /\ live[k].addr \in DOMAIN matches.by_mac
               /\ FinalName(k) = matches.by_mac[live[k].addr]

\* C19: the change set never maps two distinct interfaces to the same
\* target name.
C19_DistinctTargets ==
    \A j, k \in DOMAIN changes : j # k => changes[j].name # changes[k].name

TriggerFailed == \E k \in DOMAIN calls : calls[k].op = "trigger" /\ ~calls[k].ok

\* The link-rule phase (lines 101-108) is over.
PastTrigger ==
    \/ pc \in {"rename", "settle", "start_networkd", "start_nm"}
    \/ pc = "end" /\ ~GeneratorFailed /\ ~TriggerFailed

\* C17: in a pass that gets past generation and in which no trigger fails,
\* the link-rule trigger is invoked exactly once for every interface of the
\* snapshot, whatever its state, after the stop phase and before the first
\* rename.
C17_TriggerEveryInterface ==
    /\ PastTrigger =>
          \A d \in DOMAIN devices :
              Cardinality({k \in DOMAIN calls :
                  calls[k].op = "trigger" /\ calls[k].arg = devices[d]}) = 1
    /\ \A k \in DOMAIN calls :
          calls[k].op = "trigger" =>
              /\ \E d \in DOMAIN devices : devices[d] = calls[k].arg
              /\ \A j \in 1..(k - 1) : calls[j].op # "rename"
              /\ \A j \in (k + 1)..Len(calls) :
                    calls[j].op \notin {"stop", "disconnect", "nm_running"}

\* A complete pass that stopped networkd, triggered an interface that is up
\* and an undeclared one, and then renamed a device.
C17_Witness ==
    /\ pc = "end" /\ outcome = "ok"
    /\ Called("stop", "networkd")
    /\ \E k \in DOMAIN calls : calls[k].op = "rename"
    /\ \E d \in DOMAIN devices :
          /\ live[d].operstate = "up"
          /\ ~HasChange(changes, devices[d])
          /\ Called("trigger", devices[d])

\* C18 as stated: a backend is started only if a stop of the same backend
\* was issued earlier in the pass.
C18_StartOnlyAfterStop ==
    \A k \in DOMAIN calls :
        calls[k].op = "start" =>
            \E j \in 1..(k - 1) : calls[j].op = "stop" /\ calls[j].arg = calls[k].arg

\* C18 amended: a backend is started only if a stop of the same backend was
\* issued earlier in the pass or, for NetworkManager, if nm_running()
\* reported earlier in the pass that it was not running.
C18_StartAfterStopOrNotRunning ==
    \A k \in DOMAIN calls :
        calls[k].op = "start" =>
            \/ \E j \in 1..(k - 1) : calls[j].op = "stop" /\ calls[j].arg = calls[k].arg
            \/ /\ calls[k].arg = "NetworkManager"
               /\ \E j \in 1..(k - 1) : calls[j].op = "nm_running" /\ ~calls[j].ok

\* A complete pass that stopped and started networkd and started
\* NetworkManager, which was not running, without stopping it.
C18_Witness ==
    /\ pc = "end" /\ outcome = "ok"
    /\ Called("stop", "networkd") /\ Called("start", "networkd")
    /\ ~Called("stop", "NetworkManager") /\ Called("start", "NetworkManager")

====
